---- MODULE Spec2Model ----
(***************************************************************************)
(* A model of dedo/utils/anchor_utils.py: the nearest-cluster selector     *)
(* get_closest, the anchor lifecycle (create_anchor, create_anchor_geom,   *)
(* attach_anchor, release_anchor, pin_fixed) and the velocity controller   *)
(* command_anchor_velocity, together with the part of the simulator state  *)
(* these helpers read and write (bodies, soft-body anchor constraints,     *)
(* applied forces).                                                        *)
(*                                                                         *)
(* Conventions.                                                            *)
(*  - Vertex indices and body ids are 0-based, as in the source; vertex v  *)
(*    of a mesh is the (v+1)-th element of the sequence that models it.    *)
(*  - Coordinates are integers.  Distances are kept squared: the source    *)
(*    compares Euclidean norms, and x <= y iff x*x <= y*y for x, y >= 0.   *)
(*  - A mean of points is the exact rational [sum, n] in lowest terms;     *)
(*    n = 0 is the not-a-number mean of an empty selection.                *)
(*  - An optional value (Python None) is a sequence of length at most 1.   *)
(*  - Velocities and forces are integers in units of 1/VelDenom.           *)
(***************************************************************************)
EXTENDS Integers, Sequences, FiniteSets, TLC

VARIABLES
    mesh,           \* vertex positions of the deformable object
    bodies,         \* simulator: body id -> [mass, pos, rgba, collision]
    constraints,    \* simulator: set of [uid, deform, vertex, body]
    nextConstraint, \* simulator: next user-constraint unique id
    forces,         \* simulator: sequence of [body, force] applied so far
    call            \* the last call made into the module and its outcome

vars == <<mesh, bodies, constraints, nextConstraint, forces, call>>

----------------------------------------------------------------------------
(* Program constants *)

Dim == 3
PinsDivisor == 50
CTRL_MAX_FORCE == 10
CTRL_PD_KD == 50
ANCHOR_RGBA_ACTIVE == "magenta"
ANCHOR_RGBA_INACTIVE == "gray"
ANCHOR_RGBA_PEACH == "peach"
DefaultMass == 100  \* create_anchor's mass=0.1, in grams
DefaultRadius == 5  \* create_anchor's radius=0.005, in millimetres
PinRadius == 2      \* pin_fixed's radius=0.002, in millimetres

(* Bounds of the model *)

MaxCoord == 2       \* coordinates of targets and of small meshes: 0..MaxCoord
MaxMeshLen == 2     \* small meshes are enumerated up to this length
MidLen == 10        \* a generated mesh below PinsDivisor
MaxGridWidth == 2   \* generated meshes are grids of width 1..MaxGridWidth
MaxCap == 2         \* distance caps: -1..MaxCap
VelDenom == 10      \* velocities and forces are multiples of 1/VelDenom
MaxVel == 2         \* velocity components: -MaxVel..MaxVel (in 1/VelDenom)
MaxSceneBodies == 2 \* bodies of the scene before any anchor: 1..MaxSceneBodies
MaxListLen == 2     \* vertex lists a caller passes have at most this length
MaxBodies == 2      \* markers created at most
MaxConstraints == 2 \* constraints the simulator creates at most
MaxForces == 1      \* force applications recorded at most

----------------------------------------------------------------------------
(* Values *)

None == << >>
Some(x) == <<x>>

Max(a, b) == IF a >= b THEN a ELSE b
Min(a, b) == IF a <= b THEN a ELSE b
Abs(a) == IF a >= 0 THEN a ELSE -a

Range(s) == {s[i] : i \in DOMAIN s}

Axes == 1..Dim
Points == [Axes -> 0..MaxCoord]
AxisPoints == {p \in Points : \A a \in Axes : a > 1 => p[a] = 0}
Origin == [a \in Axes |-> 0]

RECURSIVE GCD(_, _)
GCD(a, b) == IF b = 0 THEN a ELSE GCD(b, a % b)

\* the exact rational vector sum/n in lowest terms (n > 0)
Rational(sum, n) ==
    LET g == GCD(n, GCD(Abs(sum[1]), GCD(Abs(sum[2]), Abs(sum[3]))))
    IN [sum |-> [a \in Axes |-> sum[a] \div g], n |-> n \div g]

NaNPos == [sum |-> Origin, n |-> 0]
PosOf(p) == [sum |-> p, n |-> 1]

RECURSIVE SumPoints(_)
SumPoints(ps) ==
    IF ps = << >> THEN Origin
    ELSE [a \in Axes |-> Head(ps)[a] + SumPoints(Tail(ps))[a]]

\* mesh[anchor_vertices].mean(axis=0)
MeanOf(m, verts) ==
    IF Len(verts) = 0 THEN NaNPos
    ELSE Rational(SumPoints([i \in 1..Len(verts) |-> m[verts[i] + 1]]), Len(verts))

\* squared np.linalg.norm(p - q)
Dist2(p, q) ==
    (p[1] - q[1]) * (p[1] - q[1]) + (p[2] - q[2]) * (p[2] - q[2])
    + (p[3] - q[3]) * (p[3] - q[3])

----------------------------------------------------------------------------
(* Inputs *)

\* a cloth-like grid of n vertices, w per row
Grid(n, w) == [i \in 1..n |-> <<(i - 1) % w, (i - 1) \div w, 0>>]

SmallMeshes == UNION {[1..n -> AxisPoints] : n \in 1..MaxMeshLen}
GridLens == {MidLen, 2 * PinsDivisor - 1, 2 * PinsDivisor, 4 * PinsDivisor}
GridMeshes == {Grid(n, w) : n \in GridLens, w \in 1..MaxGridWidth}
Meshes == SmallMeshes \cup GridMeshes

Caps == {None} \cup {Some(c) : c \in (-1)..MaxCap}

----------------------------------------------------------------------------
(* get_closest *)

\* num_to_pin
NumToPin(n) == Min(n, Max(1, n \div PinsDivisor))

\* dists, indexed by vertex + 1
Dists(init_pos, m) == [i \in 1..Len(m) |-> Dist2(m[i], init_pos)]

KthSmallest(d, k) ==
    CHOOSE v \in Range(d) :
        /\ Cardinality({i \in DOMAIN d : d[i] < v}) < k
        /\ Cardinality({i \in DOMAIN d : d[i] <= v}) >= k

Perms(S) ==
    {f \in [1..Cardinality(S) -> S] :
        \A i, j \in 1..Cardinality(S) : i # j => f[i] # f[j]}

\* mutant: the first kth vertices in mesh order, the distances ignored
ArgPartitionPrefix_Unpartitioned(d, kth) == {[i \in 1..kth |-> i - 1]}

\* np.argpartition(d, kth)[0:kth] for 1 <= kth < Len(d): every order of every
\* set of kth vertices none of which is farther than a vertex left out
ArgPartitionPrefix(d, kth) ==
    LET v    == KthSmallest(d, kth)
        less == {i \in DOMAIN d : d[i] < v}
        ties == {i \in DOMAIN d : d[i] = v}
        sets == {less \cup t : t \in {u \in SUBSET ties :
                                Cardinality(u) = kth - Cardinality(less)}}
    IN UNION {Perms({i - 1 : i \in S}) : S \in sets}

\* mutant: a strict comparison, dropping vertices at exactly the cap
WithinCap_Strict(d2, max_dist) == max_dist >= 0 /\ d2 < max_dist * max_dist

\* dists[v] <= max_dist
WithinCap(d2, max_dist) == max_dist >= 0 /\ d2 <= max_dist * max_dist

FilterCap(verts, d, max_dist) ==
    IF max_dist = None THEN verts
    ELSE SelectSeq(verts, LAMBDA v : WithinCap(d[v + 1], max_dist[1]))

\* the outcomes of get_closest(init_pos, mesh, max_dist)
GetClosestOutcomes(init_pos, m, max_dist) ==
    LET num_to_pin == NumToPin(Len(m))
        dists == Dists(init_pos, m)
    IN IF num_to_pin >= Len(m)
       THEN {[raised |-> "ValueError", pos |-> NaNPos, verts |-> << >>]}
       ELSE {[raised |-> "none",
              pos |-> MeanOf(m, FilterCap(sel, dists, max_dist)),
              verts |-> FilterCap(sel, dists, max_dist)] :
                sel \in ArgPartitionPrefix(dists, num_to_pin)}

Pending(op, args) ==
    [op |-> op, args |-> args, done |-> FALSE, raised |-> "none", ret |-> << >>]

Done(op, args, raised, ret) ==
    [op |-> op, args |-> args, done |-> TRUE, raised |-> raised, ret |-> ret]

\* get_closest(init_pos, mesh, max_dist) called on the current mesh
GetClosest(init_pos, max_dist) ==
    /\ \E r \in GetClosestOutcomes(init_pos, mesh, max_dist) :
        call' = Done("get_closest", [init_pos |-> init_pos, max_dist |-> max_dist],
                     r.raised, [pos |-> r.pos, verts |-> r.verts])
    /\ UNCHANGED <<mesh, bodies, constraints, nextConstraint, forces>>

----------------------------------------------------------------------------
(* The simulator's bodies and constraints *)

\* bodies[id + 1] is the body with unique id `id`
BodyIds == 0..(Len(bodies) - 1)
Body(id) == bodies[id + 1]
AnchorIds == {id \in BodyIds : Body(id).by = "create_anchor"}
MarkerIds == {id \in BodyIds : Body(id).by \in {"create_anchor", "pin_fixed"}}
DeformId == CHOOSE id \in BodyIds : Body(id).by = "deform"

SceneBody(by) ==
    [by |-> by, mass |-> 0, pos |-> PosOf(Origin), radius |-> 0,
     rgba |-> "none", collision |-> TRUE]

\* the body create_anchor_geom(sim, pos, mass, radius, rgba, use_collision)
\* creates; `by` records the operation that asked for it
AnchorGeom(by, pos, mass, radius, rgba, use_collision) ==
    [by |-> by, mass |-> mass, pos |-> pos, radius |-> radius, rgba |-> rgba,
     collision |-> (mass > 0 /\ use_collision)]

\* sim.changeVisualShape(anchor_id, -1, rgbaColor=rgba)
ChangeVisualShape(bs, anchor_id, rgba) ==
    [bs EXCEPT ![anchor_id + 1].rgba = rgba]

\* sim.createSoftBodyAnchor(deform_id, v, anchor_id, -1) for the i-th vertex
\* of a list, the simulator handing out unique ids in order
SoftBodyAnchor(first_uid, i, deform_id, v, anchor_id) ==
    [uid |-> first_uid + i - 1, deform |-> deform_id, vertex |-> v,
     body |-> anchor_id]

\* sim.removeConstraint(uid): the constraint with that unique id, if any
RemoveConstraint(cs, uid) == {c \in cs : c.uid # uid}

ConstraintsOf(anchor_id) == {c \in constraints : c.body = anchor_id}

----------------------------------------------------------------------------
(* create_anchor *)

\* the vertex set, position and exception create_anchor resolves
ResolveAnchor(anchor_pos, anchor_idx, preset_vertices, use_preset, use_closest) ==
    IF use_preset /\ preset_vertices # None
    THEN {[raised |-> "none",
           pos |-> MeanOf(mesh, preset_vertices[1][anchor_idx + 1]),
           verts |-> Some(preset_vertices[1][anchor_idx + 1])]}
    ELSE IF use_closest
    THEN {[raised |-> r.raised, pos |-> r.pos, verts |-> Some(r.verts)] :
            r \in GetClosestOutcomes(anchor_pos, mesh, None)}
    ELSE {[raised |-> "none", pos |-> PosOf(anchor_pos), verts |-> None]}

CreateAnchor(anchor_pos, anchor_idx, preset_vertices, mass, radius, rgba, use_preset, use_closest) ==
    LET args == [anchor_pos |-> anchor_pos, anchor_idx |-> anchor_idx,
                 preset_vertices |-> preset_vertices, use_preset |-> use_preset,
                 use_closest |-> use_closest]
    IN \E r \in ResolveAnchor(anchor_pos, anchor_idx, preset_vertices,
                              use_preset, use_closest) :
        /\ IF r.raised # "none"
           THEN /\ bodies' = bodies
                /\ call' = Done("create_anchor", args, r.raised, << >>)
           ELSE /\ bodies' = Append(bodies,
                        AnchorGeom("create_anchor", r.pos, mass, radius, rgba, TRUE))
                /\ call' = Done("create_anchor", args, "none",
                                [id |-> Len(bodies), pos |-> r.pos,
                                 verts |-> r.verts])
        /\ UNCHANGED <<mesh, constraints, nextConstraint, forces>>

----------------------------------------------------------------------------
(* attach_anchor, release_anchor *)

AttachAnchor(anchor_id, anchor_vertices, change_color) ==
    LET args == [anchor_id |-> anchor_id, anchor_vertices |-> anchor_vertices,
                 change_color |-> change_color]
        recolored == IF change_color
                     THEN ChangeVisualShape(bodies, anchor_id, ANCHOR_RGBA_ACTIVE)
                     ELSE bodies
    IN /\ bodies' = recolored
       /\ IF anchor_vertices = None
          THEN \* `for v in None`
               /\ call' = Done("attach_anchor", args, "TypeError", << >>)
               /\ UNCHANGED <<constraints, nextConstraint>>
          ELSE LET vs == anchor_vertices[1]
               IN /\ constraints' = constraints \cup
                        {SoftBodyAnchor(nextConstraint, i, DeformId, vs[i], anchor_id) :
                            i \in 1..Len(vs)}
                  /\ nextConstraint' = nextConstraint + Len(vs)
                  /\ call' = Done("attach_anchor", args, "none", << >>)
       /\ UNCHANGED <<mesh, forces>>

ReleaseAnchor(anchor_id) ==
    /\ constraints' = RemoveConstraint(constraints, anchor_id)
    /\ bodies' = ChangeVisualShape(bodies, anchor_id, ANCHOR_RGBA_INACTIVE)
    /\ call' = Done("release_anchor", [anchor_id |-> anchor_id], "none", << >>)
    /\ UNCHANGED <<mesh, nextConstraint, forces>>

----------------------------------------------------------------------------
(* pin_fixed *)

\* get_mesh_data(sim, deform_id)[1]: the deformable's current vertex positions
GetMeshData == mesh

\* mutant: one marker, created before the loop, shared by all the vertices
PinFixed_SharedMarker(vert_ids) ==
    LET v_pos_list == GetMeshData
        n == Len(vert_ids)
    IN /\ bodies' = IF n = 0 THEN bodies
                    ELSE Append(bodies,
                            AnchorGeom("pin_fixed", PosOf(v_pos_list[vert_ids[1] + 1]),
                                       0, PinRadius, ANCHOR_RGBA_PEACH, TRUE))
       /\ constraints' = constraints \cup
            {SoftBodyAnchor(nextConstraint, i, DeformId, vert_ids[i], Len(bodies)) :
                i \in 1..n}
       /\ nextConstraint' = nextConstraint + n
       /\ call' = Done("pin_fixed", [vert_ids |-> vert_ids], "none", << >>)
       /\ UNCHANGED <<mesh, forces>>

PinFixed(vert_ids) ==
    LET v_pos_list == GetMeshData
        n == Len(vert_ids)
    IN /\ bodies' = bodies \o
            [i \in 1..n |-> AnchorGeom("pin_fixed", PosOf(v_pos_list[vert_ids[i] + 1]),
                                       0, PinRadius, ANCHOR_RGBA_PEACH, TRUE)]
       /\ constraints' = constraints \cup
            {SoftBodyAnchor(nextConstraint, i, DeformId, vert_ids[i],
                            Len(bodies) + i - 1) : i \in 1..n}
       /\ nextConstraint' = nextConstraint + n
       /\ call' = Done("pin_fixed", [vert_ids |-> vert_ids], "none", << >>)
       /\ UNCHANGED <<mesh, forces>>

----------------------------------------------------------------------------
(* command_anchor_velocity *)

\* np.clip(x, lo, hi)
Clip(x, lo, hi) == IF x < lo THEN lo ELSE IF x > hi THEN hi ELSE x

\* mutant: the force is not clipped
ControlForce_Unclipped(tgt_vel, anc_linvel) ==
    [a \in Axes |-> CTRL_PD_KD * (tgt_vel[a] - anc_linvel[a])]

\* the force for a target and a current velocity, all in units of 1/VelDenom
ControlForce(tgt_vel, anc_linvel) ==
    [a \in Axes |->
        Clip(CTRL_PD_KD * (tgt_vel[a] - anc_linvel[a]),
             -1 * CTRL_MAX_FORCE * VelDenom, CTRL_MAX_FORCE * VelDenom)]

\* mutant: the force goes to the deformable instead of the anchor
CommandAnchorVelocity_WrongBody(anchor_bullet_id, tgt_vel, anc_linvel) ==
    /\ forces' = Append(forces, [body |-> DeformId,
                                 force |-> ControlForce(tgt_vel, anc_linvel)])
    /\ call' = Done("command_anchor_velocity",
                    [anchor_bullet_id |-> anchor_bullet_id, tgt_vel |-> tgt_vel,
                     anc_linvel |-> anc_linvel], "none", << >>)
    /\ UNCHANGED <<mesh, bodies, constraints, nextConstraint>>

\* anc_linvel is what sim.getBaseVelocity(anchor_bullet_id) answers
CommandAnchorVelocity(anchor_bullet_id, tgt_vel, anc_linvel) ==
    /\ forces' = Append(forces, [body |-> anchor_bullet_id,
                                 force |-> ControlForce(tgt_vel, anc_linvel)])
    /\ call' = Done("command_anchor_velocity",
                    [anchor_bullet_id |-> anchor_bullet_id, tgt_vel |-> tgt_vel,
                     anc_linvel |-> anc_linvel], "none", << >>)
    /\ UNCHANGED <<mesh, bodies, constraints, nextConstraint>>

----------------------------------------------------------------------------
(* Specifications *)

Scenes == {[i \in 1..n |-> IF i = n THEN SceneBody("deform") ELSE SceneBody("floor")] :
            n \in 1..MaxSceneBodies}

\* get_closest applied once to every mesh, target and cap
InitClosest ==
    /\ mesh \in Meshes
    /\ bodies \in Scenes /\ Len(bodies) = 1
    /\ constraints = {}
    /\ nextConstraint = 1
    /\ forces = << >>
    /\ \E p \in Points, c \in Caps :
        call = Pending("get_closest", [init_pos |-> p, max_dist |-> c])

NextClosest ==
    /\ call.op = "get_closest" /\ ~call.done
    /\ GetClosest(call.args.init_pos, call.args.max_dist)

SpecClosest == InitClosest /\ [][NextClosest]_vars

\* command_anchor_velocity applied once to an anchor made by create_anchor, for
\* every target velocity and every velocity the simulator may report
Vels == [Axes -> (-MaxVel)..MaxVel]
Masses == {0, DefaultMass}

InitCtrl ==
    /\ mesh = Grid(1, 1)
    /\ \E m \in Masses :
        bodies = <<SceneBody("deform"),
                   AnchorGeom("create_anchor", PosOf(Origin), m, DefaultRadius,
                              ANCHOR_RGBA_ACTIVE, TRUE)>>
    /\ constraints = {}
    /\ nextConstraint = 1
    /\ forces = << >>
    /\ \E t \in Vels, v \in Vels :
        call = Pending("command_anchor_velocity",
                       [anchor_bullet_id |-> 1, tgt_vel |-> t, anc_linvel |-> v])

NextCtrl ==
    /\ call.op = "command_anchor_velocity" /\ ~call.done
    /\ CommandAnchorVelocity(call.args.anchor_bullet_id, call.args.tgt_vel,
                             call.args.anc_linvel)

SpecCtrl == InitCtrl /\ [][NextCtrl]_vars

\* the anchor lifecycle: any sequence of calls a caller may make
LifeLens == {1, MaxMeshLen, 2 * PinsDivisor}
LifeMeshes == {Grid(n, 2) : n \in LifeLens}
LifePoints == {[a \in Axes |-> MaxCoord]}
\* the velocity of an anchor at rest
RestVel == [a \in Axes |-> 0]

\* ascending lists of at most MaxListLen distinct vertex indices, among the
\* first of the mesh
VertexLists ==
    {l \in UNION {[1..n -> 0..(Min(Len(mesh), MaxListLen) - 1)] : n \in 0..MaxListLen} :
        \A i, j \in DOMAIN l : i < j => l[i] < l[j]}
\* preset lists for two anchor slots: none, or an empty or a full list for
\* slot 0 and vertex 0 for slot 1
FullList == [i \in 1..Min(MaxListLen, Len(mesh)) |-> i - 1]
Presets == {None, Some(<<<< >>, <<0>>>>), Some(<<FullList, <<0>>>>)}
Colors == {ANCHOR_RGBA_ACTIVE, ANCHOR_RGBA_INACTIVE}
NumMarkers == Cardinality(MarkerIds)

\* what a caller hands to attach_anchor: a vertex list of its own, or the
\* vertices create_anchor has just returned
ReturnedVerts ==
    IF call.op = "create_anchor" /\ call.raised = "none"
    THEN {call.ret.verts} ELSE {}
AttachInputs == {Some(l) : l \in VertexLists} \cup ReturnedVerts

CreateAnchorCall(masses, presets, colors, flags) ==
    /\ NumMarkers < MaxBodies
    /\ \E anchor_pos \in LifePoints, preset \in presets, mass \in masses,
          rgba \in colors, use_preset, use_closest \in flags :
       \E anchor_idx \in IF preset = None THEN {0} ELSE {0, 1} :
        CreateAnchor(anchor_pos, anchor_idx, preset, mass, DefaultRadius, rgba,
                     use_preset, use_closest)

AttachAnchorCall(inputs, recolor) ==
    \E anchor_id \in AnchorIds, vs \in inputs, change_color \in recolor :
        /\ vs # None => nextConstraint - 1 + Len(vs[1]) <= MaxConstraints
        /\ AttachAnchor(anchor_id, vs, change_color)

ReleaseAnchorCall == \E anchor_id \in AnchorIds : ReleaseAnchor(anchor_id)

PinFixedCall ==
    \E vert_ids \in VertexLists :
        /\ NumMarkers + Len(vert_ids) <= MaxBodies
        /\ nextConstraint - 1 + Len(vert_ids) <= MaxConstraints
        /\ PinFixed(vert_ids)

CommandAnchorVelocityCall ==
    /\ Len(forces) < MaxForces
    /\ \E id \in AnchorIds :
        CommandAnchorVelocity(id, [a \in Axes |-> MaxVel], RestVel)

\* create, attach and release, for every way of resolving the vertex set
Init ==
    /\ mesh \in LifeMeshes
    /\ bodies \in Scenes
    /\ constraints = {}
    /\ nextConstraint = 1
    /\ forces = << >>
    /\ call = Pending("none", << >>)

Next ==
    \/ CreateAnchorCall({DefaultMass}, Presets, Colors, BOOLEAN)
    \/ AttachAnchorCall(AttachInputs, BOOLEAN)
    \/ ReleaseAnchorCall

Spec == Init /\ [][Next]_vars

\* every operation of the module, on anchors of zero and of positive mass,
\* create_anchor and attach_anchor being called with their default flags
InitFixed ==
    /\ mesh = Grid(MaxMeshLen, 2)
    /\ bodies \in Scenes /\ Len(bodies) = 1
    /\ constraints = {}
    /\ nextConstraint = 1
    /\ forces = << >>
    /\ call = Pending("none", << >>)

NextFixed ==
    \/ CreateAnchorCall(Masses, {None}, {ANCHOR_RGBA_ACTIVE}, {TRUE})
    \/ AttachAnchorCall(ReturnedVerts, {FALSE})
    \/ ReleaseAnchorCall
    \/ PinFixedCall
    \/ CommandAnchorVelocityCall

SpecFixed == InitFixed /\ [][NextFixed]_vars

----------------------------------------------------------------------------
(* Claims about get_closest, under SpecClosest *)

Returned(op) == call.op = op /\ call.done /\ call.raised = "none"
NumVerts == Len(mesh)
DistOf(v) == Dist2(mesh[v + 1], call.args.init_pos)
IsVertexSeq(verts) ==
    /\ \A i \in DOMAIN verts : verts[i] \in 0..(NumVerts - 1)
    /\ \A i, j \in DOMAIN verts : i # j => verts[i] # verts[j]

\* C1: for every non-empty mesh of N vertices (N = 1 included) and every
\* target, get_closest with no distance cap returns normally, with exactly
\* min(N, max(1, floor(N/50))) distinct valid vertex indices.
C1_SizeNoCap ==
    (call.op = "get_closest" /\ call.done /\ call.args.max_dist = None) =>
        /\ call.raised = "none"
        /\ IsVertexSeq(call.ret.verts)
        /\ Len(call.ret.verts) = Min(NumVerts, Max(1, NumVerts \div PinsDivisor))

\* C2: the indices get_closest returns with no distance cap are k closest
\* vertices: no returned vertex is farther from the target than a vertex
\* that was not returned, whatever the order of ties.
C2_KClosest ==
    (Returned("get_closest") /\ call.args.max_dist = None) =>
        \A v \in Range(call.ret.verts) :
            \A u \in (0..(NumVerts - 1)) \ Range(call.ret.verts) :
                DistOf(v) <= DistOf(u)

\* C2 witness: four vertices returned from a mesh of 200, a vertex left out
\* being exactly as far as the farthest returned one (a tie was broken).
C2_Witness ==
    /\ Returned("get_closest") /\ call.args.max_dist = None
    /\ NumVerts = 4 * PinsDivisor /\ Len(call.ret.verts) = 4
    /\ \E v \in Range(call.ret.verts) :
        \E u \in (0..(NumVerts - 1)) \ Range(call.ret.verts) :
            DistOf(v) = DistOf(u)

\* the distance of vertex v is at most the cap c
AtMostCap(v, c) == c >= 0 /\ DistOf(v) <= c * c

\* C3: with a maximum distance c, the returned indices are exactly a
\* k-nearest selection with the vertices farther than c removed: vertices
\* at exactly c are kept, none outside the selection is added, and a cap
\* below every selected vertex's distance leaves nothing.
C3_CapFilters ==
    (Returned("get_closest") /\ call.args.max_dist # None) =>
        LET c == call.args.max_dist[1]
        IN \E r \in GetClosestOutcomes(call.args.init_pos, mesh, None) :
            /\ IsVertexSeq(call.ret.verts)
            /\ Range(call.ret.verts) = {v \in Range(r.verts) : AtMostCap(v, c)}
            /\ (\A v \in Range(r.verts) : ~AtMostCap(v, c)) => call.ret.verts = << >>

\* C3 witness: a capped call on a mesh with k >= 2 that kept a vertex at
\* exactly the cap and dropped another of the selection.
C3_Witness ==
    /\ Returned("get_closest") /\ call.args.max_dist # None
    /\ NumToPin(NumVerts) >= 2
    /\ Len(call.ret.verts) \in 1..(NumToPin(NumVerts) - 1)
    /\ \E v \in Range(call.ret.verts) :
        DistOf(v) = call.args.max_dist[1] * call.args.max_dist[1]

\* C3 witness of the empty case: a cap below every selected distance.
C3_WitnessEmpty ==
    /\ Returned("get_closest") /\ call.args.max_dist # None
    /\ call.args.max_dist[1] >= 0
    /\ call.ret.verts = << >> /\ call.ret.pos = NaNPos

----------------------------------------------------------------------------
(* Claims about command_anchor_velocity, under SpecCtrl *)

FmaxUnits == CTRL_MAX_FORCE * VelDenom

----------------------------------------------------------------------------
(* Claims about the anchor lifecycle, under Spec *)

Called(op) == call.op = op /\ call.done

\* C5: after an anchor has been attached to a vertex set (one constraint per
\* vertex), release_anchor leaves it with zero active constraints and the
\* inactive color, the marker body still existing.
C5_ReleaseClears ==
    Called("release_anchor") =>
        /\ call.args.anchor_id \in AnchorIds
        /\ Body(call.args.anchor_id).rgba = ANCHOR_RGBA_INACTIVE
        /\ ConstraintsOf(call.args.anchor_id) = {}

\* the marker create_anchor reports is the one body it has just created
OneMarkerCreated ==
    /\ call.raised = "none"
    /\ call.ret.id = Len(bodies) - 1
    /\ Body(call.ret.id).by = "create_anchor"
    /\ Body(call.ret.id).pos = call.ret.pos

UsablePreset == call.args.use_preset /\ call.args.preset_vertices # None

\* C6: create_anchor resolves the vertex set in priority order: an enabled
\* and supplied preset gives exactly preset_vertices[anchor_idx] and their
\* centroid in the mesh, whatever use_closest and the initial position are;
\* otherwise use_closest gives exactly the result of get_closest(initial
\* position, mesh) with no cap.  In both cases exactly one marker body is
\* created, at the resolved position.
C6_PriorityOrder ==
    Called("create_anchor") =>
        /\ UsablePreset =>
            /\ OneMarkerCreated
            /\ call.ret.verts =
                Some(call.args.preset_vertices[1][call.args.anchor_idx + 1])
            /\ call.ret.pos =
                MeanOf(mesh, call.args.preset_vertices[1][call.args.anchor_idx + 1])
        /\ (~UsablePreset /\ call.args.use_closest) =>
            /\ \E r \in GetClosestOutcomes(call.args.anchor_pos, mesh, None) :
                /\ r.raised = call.raised
                /\ r.raised = "none" =>
                    (call.ret.pos = r.pos /\ call.ret.verts = Some(r.verts))
            /\ OneMarkerCreated

NoVertices == {None, Some(<< >>)}

\* C8: with no usable preset and use_closest disabled, create_anchor selects
\* no vertices: it returns an empty vertex set and the unchanged initial
\* position, still creates exactly one marker, and attach_anchor applied to
\* the returned vertex set is a no-op that raises no error.
C8_UnboundAnchor ==
    /\ (Called("create_anchor") /\ ~UsablePreset /\ ~call.args.use_closest) =>
        /\ OneMarkerCreated
        /\ call.ret.verts \in NoVertices
        /\ call.ret.pos = PosOf(call.args.anchor_pos)
    /\ (Called("attach_anchor") /\ call.args.anchor_vertices \in NoVertices) =>
        call.raised = "none"

\* C10: over every sequence of create_anchor, attach_anchor and
\* release_anchor calls on a dynamic anchor, the anchor goes created ->
\* bound -> unbound -> bound ...: after attach_anchor it holds one
\* constraint per given vertex and shows the active color, after
\* release_anchor it holds none and shows the inactive color, and
\* re-attachment makes it bound and active again.  (The color after attach
\* is required here only of calls that ask for the recoloring.)
C10_Lifecycle ==
    [][/\ (call'.op = "attach_anchor" /\ call'.raised = "none"
            /\ ConstraintsOf(call'.args.anchor_id) = {}) =>
            /\ Cardinality({c \in constraints' : c.body = call'.args.anchor_id}) =
                Len(call'.args.anchor_vertices[1])
            /\ call'.args.change_color =>
                bodies'[call'.args.anchor_id + 1].rgba = ANCHOR_RGBA_ACTIVE
       /\ call'.op = "release_anchor" =>
            /\ {c \in constraints' : c.body = call'.args.anchor_id} = {}
            /\ bodies'[call'.args.anchor_id + 1].rgba = ANCHOR_RGBA_INACTIVE
    ]_vars

----------------------------------------------------------------------------
(* Claims about fixed anchors, under SpecFixed *)

C9_PinFixed ==
    [][call'.op = "pin_fixed" =>
        LET vert_ids == call'.args.vert_ids
            n == Len(vert_ids)
            added == constraints' \ constraints
        IN /\ Len(bodies') = Len(bodies) + n
           /\ SubSeq(bodies', 1, Len(bodies)) = bodies
           /\ constraints \subseteq constraints'
           /\ Cardinality(added) = n
           /\ \A i \in 1..n :
                LET marker == Len(bodies) + i - 1
                    body == bodies'[marker + 1]
                IN /\ body.mass = 0
                   /\ body.rgba = ANCHOR_RGBA_PEACH
                   /\ body.pos = PosOf(mesh[vert_ids[i] + 1])
                   /\ \E c \in added :
                        /\ c.body = marker /\ c.vertex = vert_ids[i]
                        /\ c.deform = DeformId
                        /\ \A d \in constraints' : d.body = marker => d = c
    ]_vars

\* C9 witness: pin_fixed has pinned two vertices, leaving two markers with
\* one constraint each.
C9_Witness ==
    /\ Called("pin_fixed") /\ Len(call.args.vert_ids) = 2
    /\ Cardinality({id \in BodyIds : Body(id).by = "pin_fixed"}) = 2
    /\ \A id \in BodyIds :
        Body(id).by = "pin_fixed" => Cardinality(ConstraintsOf(id)) = 1

\* C9 witness of the empty list: a call that created nothing.
C9_WitnessEmpty ==
    /\ Called("pin_fixed") /\ call.args.vert_ids = << >>
    /\ MarkerIds = {} /\ constraints = {}

====
